---- MODULE Spec2Model ----
(***************************************************************************)
(* Hybrid recommendation engine: the experiment controller (ABTestService, *)
(* the /like handler) and the ranker (RecommendationService).              *)
(*                                                                         *)
(* Requests are served concurrently (spec section 5); the counters record  *)
(* and the like-event log are two JSON files shared by every request.  A   *)
(* file is written by open(path, 'w'), which truncates it, followed by     *)
(* json.dump and the close that flushes the bytes: two steps, between      *)
(* which the file is empty.                                                *)
(***************************************************************************)
EXTENDS Integers, Sequences, FiniteSets, TLC

\* ---------------------------------------------------------------- bounds
MaxCalls == 3        \* requests started in one behaviour
MaxTime == 1         \* the clock runs 0..MaxTime
MaxLimit == 2        \* get_recommendations is called with limit in 0..MaxLimit
MaxBatch == 2        \* notes in one call of _calculate_recency_scores
MaxNodes == 12       \* notes in one batch handed to _create_dummy_edges
MaxCount == 4        \* highest count in a counters record found at construction

\* ------------------------------------------------------- program constants
\* settings.ab_test_threshold_date, as a tick of the model's clock
ab_test_threshold_date == 1

\* RecommendationService.__init__: the weights of the hybrid score, in
\* thousandths
gat_weight == 350
traditional_weight == 350
recency_weight == 150
random_weight == 150

\* the workers that serve requests side by side
Procs == {"w1", "w2"}
Users == {"u1"}
Notes == {"n1"}
ABTestGroup == {"A", "B"}

VARIABLES
    now,          \* datetime.now()
    countsFile,   \* data/ab_test_counts.json
    likesFile,    \* data/likes_data.json
    liked,        \* (:User)-[:LIKED]->(:Note) relationships of the graph
    like_count,   \* n.like_count of every note
    pc,           \* where each request is in its handler
    req,          \* the request's parameters and its LikeRecord
    likes_data,   \* record_like's local likes_data
    counts,       \* _increment_count's / get_winning_group's local counts
    response,     \* the last answer given to a caller, with the counts it rests on
    prev_win,     \* the group the get_winning_group call before that one decided
    notes,        \* the (:Note) nodes of the graph store and their properties
    rank,         \* the last get_recommendations call: its arguments, the
                  \* scorer's and the generator's outputs, and its result
    call,         \* the last direct call of a graph or scoring method: its
                  \* arguments and what it returned
    started,      \* requests started so far
    completed,    \* record_like calls that returned, per group
    max_a, max_b  \* highest value each counter has held in the file

vars == <<now, countsFile, likesFile, liked, like_count, pc, req, likes_data,
          counts, response, prev_win, notes, rank, call, started, completed,
          max_a, max_b>>

fileVars == <<countsFile, likesFile>>
graphVars == <<liked, like_count>>
rankVars == <<notes, rank, call>>
histVars == <<completed, max_a, max_b>>

Max(x, y) == IF x >= y THEN x ELSE y

RECURSIVE SumOver(_, _)
SumOver(S, f) ==
    IF S = {} THEN 0
    ELSE LET x == CHOOSE y \in S : TRUE IN f[x] + SumOver(S \ {x}, f)

\* ------------------------------------------------------------- the files
\* open(path, 'w'): the file exists and is empty
TruncatedCounts ==
    [exists |-> TRUE, valid |-> FALSE, a |-> 0, b |-> 0, last_updated |-> 0]

TruncatedLikes == [exists |-> TRUE, valid |-> FALSE, size |-> 0, data |-> <<>>]

\* _initialize_counts_file: the record the constructor writes
InitialCounts ==
    [exists |-> TRUE, valid |-> TRUE, a |-> 0, b |-> 0, last_updated |-> 0]

NoRequest == [user_id |-> "", note_id |-> "", ab_group |-> "", timestamp |-> 0]

NoCounts == [a |-> 0, b |-> 0, last_updated |-> 0]

NoResponse == [op |-> "none", value |-> "none", a |-> 0, b |-> 0, at |-> 0]

\* HTTPException(status_code=500) of a handler, or the exception of a call
Error(op, t) == [op |-> op, value |-> "error", a |-> 0, b |-> 0, at |-> t]

\* LikeRecord(...).model_dump(mode='json')
LikeRecord(r) ==
    [user_id |-> r.user_id, note_id |-> r.note_id, ab_group |-> r.ab_group,
     timestamp |-> r.timestamp, liked_note_id |-> r.note_id]

\* _load_likes_data: [] when the file is missing or does not parse
LoadLikesData(f) ==
    IF ~f.exists THEN <<>>
    ELSE IF ~f.valid THEN <<>>
    ELSE f.data

\* json.dump(data, f) and close, by a writer whose offset is 0: the bytes
\* replace the head of what the file holds now; a longer content written by
\* another writer since this one's open keeps its tail, and the file no
\* longer parses.
DumpLikes(f, data) ==
    IF Len(data) >= f.size
    THEN [exists |-> TRUE, valid |-> TRUE, size |-> Len(data), data |-> data]
    ELSE [exists |-> TRUE, valid |-> FALSE, size |-> f.size, data |-> <<>>]

\* the two branches of _increment_count, and its last_updated
Incremented(c, g, t) ==
    [a |-> IF g = "A" THEN c.a + 1 ELSE c.a,
     b |-> IF g = "A" THEN c.b ELSE c.b + 1,
     last_updated |-> t]

\* (a variant of WinningGroup that gives an exact tie to A)
WinningGroupTieA(c, t) ==
    IF t < ab_test_threshold_date THEN "None"
    ELSE IF c.a >= c.b THEN "A" ELSE "B"

\* get_winning_group, given the counts it read and datetime.now()
WinningGroup(c, t) ==
    IF t < ab_test_threshold_date THEN "None"
    ELSE IF c.a > c.b THEN "A" ELSE "B"

\* ---------------------------------------------------------- the graph store
NoteIds == {"n1", "n2", "n3"}

\* the order in which the store returns nodes that no ORDER BY separates
NoteOrder == <<"n1", "n2", "n3">>

\* a property the node does not have (Cypher null, Python None)
Null == 0 - 1

\* no node with this note_id
AbsentNote ==
    [present |-> FALSE, title |-> FALSE, view_count |-> Null,
     download_count |-> Null, rating |-> Null, days_old |-> Null,
     tags |-> {}, category |-> "", creators |-> 0]

\* a note as upsert_note writes it: title and counters, no tag, no category;
\* rating in tenths of a star, days_old the age of created_date in days
SyncedOld ==
    [present |-> TRUE, title |-> TRUE, view_count |-> 100,
     download_count |-> 50, rating |-> 45, days_old |-> 30,
     tags |-> {}, category |-> "", creators |-> 1]

SyncedNew ==
    [present |-> TRUE, title |-> TRUE, view_count |-> 10,
     download_count |-> 5, rating |-> 20, days_old |-> 0,
     tags |-> {}, category |-> "", creators |-> 1]

\* a synced note that also carries a tag and a category
Tagged ==
    [present |-> TRUE, title |-> TRUE, view_count |-> 10,
     download_count |-> 5, rating |-> 20, days_old |-> 0,
     tags |-> {"t1"}, category |-> "c1", creators |-> 1]

\* a note synced with a title only: no counters, no rating, and a
\* created_date that is empty or does not parse
Untracked ==
    [present |-> TRUE, title |-> TRUE, view_count |-> Null,
     download_count |-> Null, rating |-> Null, days_old |-> Null,
     tags |-> {}, category |-> "", creators |-> 1]

\* a note as create_mock_data writes it: note_id and like_count, a tag and
\* a category, nothing else
Mock ==
    [present |-> TRUE, title |-> FALSE, view_count |-> Null,
     download_count |-> Null, rating |-> Null, days_old |-> Null,
     tags |-> {"t1"}, category |-> "c1", creators |-> 0]

\* a synced note with CREATED relationships from two users: every sync
\* merges (creator)-[:CREATED]->(note) for the creator the API names then,
\* and no sync removes a relationship
CoAuthored ==
    [present |-> TRUE, title |-> TRUE, view_count |-> 10,
     download_count |-> 5, rating |-> 20, days_old |-> 0,
     tags |-> {}, category |-> "", creators |-> 2]

\* the nodes the corpus is drawn from, each with its like_count
Old == [node |-> SyncedOld, like_count |-> 10]
New == [node |-> SyncedNew, like_count |-> 100]
WithTag == [node |-> Tagged, like_count |-> 0]
Bare == [node |-> Untracked, like_count |-> 0]
Seeded == [node |-> Mock, like_count |-> 1]
Shared == [node |-> CoAuthored, like_count |-> 0]
Absent == [node |-> AbsentNote, like_count |-> 0]

Profiles ==
    [n1 |-> {Old, WithTag, Seeded},
     n2 |-> {New, WithTag, Absent},
     n3 |-> {Bare, Shared, Seeded, Absent}]

\* x or 0, COALESCE(x, 0)
Coalesce(x) == IF x = Null THEN 0 ELSE x

Range(s) == {s[i] : i \in DOMAIN s}

Min(x, y) == IF x <= y THEN x ELSE y

\* (a variant of Take that keeps the end of the list, s[-n:])
TakeLast(s, n) == SubSeq(s, Len(s) - Min(n, Len(s)) + 1, Len(s))

\* s[:n] for n >= 0
Take(s, n) == SubSeq(s, 1, Min(n, Len(s)))

\* list.sort(key=score, reverse=True) and ORDER BY score DESC: descending,
\* equal scores keep the order they came in
RECURSIVE SortDesc(_)
SortDesc(s) ==
    IF Len(s) <= 1 THEN s
    ELSE LET x == Head(s)
             rest == SortDesc(Tail(s))
             k == Cardinality({i \in DOMAIN rest : rest[i].score > x.score})
         IN  SubSeq(rest, 1, k) \o <<x>> \o SubSeq(rest, k + 1, Len(rest))

\* the nodes of S, in the store's order from position i on
RECURSIVE IdsOf(_, _)
IdsOf(S, i) ==
    IF i > Len(NoteOrder) THEN <<>>
    ELSE (IF NoteOrder[i] \in S THEN <<NoteOrder[i]>> ELSE <<>>)
         \o IdsOf(S, i + 1)

\* the records of the nodes of S, in the store's order
RowsOf(S, row) == LET ids == IdsOf(S, 1) IN [i \in DOMAIN ids |-> row[ids[i]]]

Present == {n \in NoteIds : notes[n].present}

\* get_all_notes_with_features: the notes with a note_id and a title,
\* joined by OPTIONAL MATCH (u:User)-[:CREATED]->(n): one row per CREATED
\* relationship of the note, and one row (creator_id null) for a note
\* without any; ORDER BY view_count DESC, where Cypher sorts null first
AllNotesRow ==
    [n \in NoteIds |->
        [note_id |-> n, view_count |-> notes[n].view_count,
         download_count |-> notes[n].download_count,
         rating |-> notes[n].rating, days_old |-> notes[n].days_old,
         score |-> IF notes[n].view_count = Null THEN 1000000
                   ELSE notes[n].view_count]]

\* the rows of the join for the nodes of S, in the store's order from
\* position i on: each note_id once per creator
RECURSIVE JoinedWithCreators(_, _)
JoinedWithCreators(S, i) ==
    IF i > Len(NoteOrder) THEN <<>>
    ELSE (IF NoteOrder[i] \in S
          THEN [k \in 1..Max(notes[NoteOrder[i]].creators, 1) |-> NoteOrder[i]]
          ELSE <<>>)
         \o JoinedWithCreators(S, i + 1)

get_all_notes_with_features ==
    LET joined == JoinedWithCreators({n \in Present : notes[n].title}, 1)
    IN  SortDesc([i \in DOMAIN joined |-> AllNotesRow[joined[i]]])

\* _get_popular_notes: every Note node by
\* 0.3 view_count + 0.3 download_count + 0.4 like_count (here in tenths),
\* ORDER BY graph_score DESC LIMIT limit
PopularRow ==
    [n \in NoteIds |->
        [note_id |-> n,
         score |-> 3 * Coalesce(notes[n].view_count)
                   + 3 * Coalesce(notes[n].download_count)
                   + 4 * Coalesce(like_count[n])]]

\* (a variant of _get_popular_notes without the ORDER BY)
_get_popular_notes_unordered(limit) == Take(RowsOf(Present, PopularRow), limit)

_get_popular_notes(limit) == Take(SortDesc(RowsOf(Present, PopularRow)), limit)

LikedBy(u) == {n \in Present : <<u, n>> \in liked}

\* the tags of the notes the user liked
LikedTags(u) == UNION {notes[l].tags : l \in LikedBy(u)}

\* the PPR query: the notes the user has not liked that share a tag with a
\* liked note, by 0.5 tag_score + 0.3 category_score + 0.2 like_count (in
\* tenths; every node the service writes has a like_count)
PprRow(u) ==
    [n \in NoteIds |->
        [note_id |-> n,
         score |->
            5 * Cardinality(notes[n].tags \cap LikedTags(u))
            + 3 * (IF notes[n].category # ""
                      /\ \E l \in LikedBy(u) :
                            notes[l].category = notes[n].category
                   THEN 1 ELSE 0)
            + 2 * like_count[n]]]

PprCandidates(u) ==
    {c \in Present \ LikedBy(u) : notes[c].tags \cap LikedTags(u) # {}}

\* personalized_pagerank(user_id, limit)
personalized_pagerank(u, limit) ==
    IF LikedBy(u) = {} THEN _get_popular_notes(limit)
    ELSE LET recommendations ==
                 Take(SortDesc(RowsOf(PprCandidates(u), PprRow(u))), limit)
         IN  IF recommendations = <<>> THEN _get_popular_notes(limit)
             ELSE recommendations

\* (a variant of get_note_features that returns the category as stored)
get_note_features_raw(n) ==
    [like_count |-> Coalesce(like_count[n]),
     view_count |-> Coalesce(notes[n].view_count),
     download_count |-> Coalesce(notes[n].download_count),
     rating |-> Coalesce(notes[n].rating),
     tag_count |-> Cardinality(notes[n].tags),
     category |-> notes[n].category]

\* get_note_features(note_id): the record of the note with `or 0` and
\* `or "unknown"` for what is missing, and the literal defaults when no
\* node has this note_id
get_note_features(n) ==
    IF notes[n].present
    THEN [like_count |-> Coalesce(like_count[n]),
          view_count |-> Coalesce(notes[n].view_count),
          download_count |-> Coalesce(notes[n].download_count),
          rating |-> Coalesce(notes[n].rating),
          tag_count |-> Cardinality(notes[n].tags),
          category |-> IF notes[n].category = "" THEN "unknown"
                       ELSE notes[n].category]
    ELSE [like_count |-> 0, view_count |-> 0, download_count |-> 0,
          rating |-> 0, tag_count |-> 0, category |-> "unknown"]

\* graph_scores.get(note_id, 0), graph_scores being the dict of the candidates
GraphScore(cands, n) ==
    IF \E i \in DOMAIN cands : cands[i].note_id = n
    THEN cands[CHOOSE i \in DOMAIN cands : cands[i].note_id = n].score
    ELSE 0

\* ------------------------------------------------------------ the ranker
\* max(values) over x or 0, 0 for no value
RECURSIVE MaxOf(_)
MaxOf(values) ==
    IF values = <<>> THEN 0
    ELSE Max(Coalesce(Head(values)), MaxOf(Tail(values)))

\* _calculate_traditional_scores, one note's score in thousandths:
\* 0.3 views / max_views + 0.3 downloads / max_downloads + 0.4 rating / 5
TraditionalScore(rows, row) ==
    LET views == MaxOf([i \in DOMAIN rows |-> rows[i].view_count])
        downloads == MaxOf([i \in DOMAIN rows |-> rows[i].download_count])
        max_views == IF views = 0 THEN 1 ELSE views
        max_downloads == IF downloads = 0 THEN 1 ELSE downloads
    IN  (300 * Coalesce(row.view_count)) \div max_views
        + (300 * Coalesce(row.download_count)) \div max_downloads
        + 8 * Coalesce(row.rating)

\* days_old = (now - created_date).days for the dates that occur: created
\* today, some days or months ago, and created_date ahead of now (a
\* timestamp of a zone east of UTC read as UTC, a post dated in advance)
Ages == {0 - 30, 0 - 2, 0, 1, 15, 29, 30, 31, 60}

\* math.exp(-days_old / 30.0) in thousandths, for these ages:
\* exp(1) = 2.7182..., exp(0) = 1, exp(-1) = 0.3678..., exp(-2) = 0.1353...
ExpDecay(days_old) ==
    CASE days_old = 0 - 30 -> 2718
      [] days_old = 0 - 2 -> 1068
      [] days_old = 0 -> 1000
      [] days_old = 1 -> 967
      [] days_old = 15 -> 606
      [] days_old = 29 -> 380
      [] days_old = 30 -> 367
      [] days_old = 31 -> 355
      [] days_old = 60 -> 135

\* (a variant of RecencyScore that gives a note without date no recency)
RecencyScoreNoDefault(row) ==
    IF row.days_old = Null THEN 0 ELSE ExpDecay(row.days_old)

\* _calculate_recency_scores, one note's score in thousandths; 0.5 for a
\* note without created_date
RecencyScore(row) ==
    IF row.days_old = Null THEN 500 ELSE ExpDecay(row.days_old)

\* _calculate_recency_scores(notes): the score of every note of the list,
\* the notes given by their days_old
_calculate_recency_scores(days) ==
    [i \in DOMAIN days |-> RecencyScore([days_old |-> days[i]])]

\* gnn_scores.get(note_id, 0.5)
GnnScore(gnn, n) == IF n \in DOMAIN gnn THEN gnn[n] ELSE 500

\* (a variant of FinalScore whose graph boost is not capped at 0.3)
FinalScoreUncapped(rows, row, cands, gat, rand) ==
    gat_weight * gat
    + traditional_weight * TraditionalScore(rows, row)
    + recency_weight * RecencyScore(row)
    + random_weight * rand
    + 1000 * GraphScore(cands, row.note_id) * 10

\* the final score of one row, in millionths; gat and rand in thousandths,
\* graph_score in tenths: graph_boost = min(graph_score / 10, 0.3)
FinalScore(rows, row, cands, gat, rand) ==
    gat_weight * gat
    + traditional_weight * TraditionalScore(rows, row)
    + recency_weight * RecencyScore(row)
    + random_weight * rand
    + 1000 * Min(GraphScore(cands, row.note_id) * 10, 300)

\* (a variant of SortByScore that leaves final_scores in the order of all_notes)
SortByScoreSkipped(final_scores) == final_scores

\* final_scores.sort(key=lambda x: x["score"], reverse=True)
SortByScore(final_scores) == SortDesc(final_scores)

\* get_recommendations(user_id, ab_group, limit), with the scores predict_scores
\* returned (gnn, by note_id) and the random.uniform draws (rand, by row);
\* its result with the final scores beside the note ids.  ab_group is not read.
get_recommendations(user_id, ab_group, limit, gnn, rand) ==
    LET all_notes == get_all_notes_with_features
        graph_candidates == personalized_pagerank(user_id, limit * 3)
        final_scores ==
            [i \in DOMAIN all_notes |->
                [note_id |-> all_notes[i].note_id,
                 score |-> FinalScore(all_notes, all_notes[i], graph_candidates,
                                      GnnScore(gnn, all_notes[i].note_id),
                                      rand[i])]]
    IN  IF all_notes = <<>> THEN <<>>
        ELSE Take(SortByScore(final_scores), limit)

\* status is what the caller of get_recommendations gets: "ok" with result,
\* or "error" for an exception; store and scorer say which dependency was
\* out of reach during the call
NoRank ==
    [called |-> FALSE, user_id |-> "", ab_group |-> "None", limit |-> 0,
     gnn |-> <<>>, rand |-> <<>>, store |-> "up", scorer |-> "up",
     status |-> "none", result |-> <<>>]

NoCall ==
    [op |-> "none", user_id |-> "", limit |-> 0, note_id |-> "",
     days_old |-> <<>>, status |-> "none", rows |-> <<>>, features |-> <<>>]

\* the group decided by the answer that the next answer replaces
Superseded == IF response.value \in ABTestGroup THEN response.value ELSE prev_win

\* ------------------------------------------------------------------ Init
Init ==
    /\ now = 0
    /\ countsFile = InitialCounts
    /\ likesFile = [exists |-> FALSE, valid |-> FALSE, size |-> 0, data |-> <<>>]
    /\ liked = {}
    /\ like_count = [n \in Notes |-> 0]
    /\ notes = [n \in NoteIds |-> IF n \in Notes THEN SyncedNew ELSE AbsentNote]
    /\ rank = NoRank
    /\ call = NoCall
    /\ pc = [p \in Procs |-> "idle"]
    /\ req = [p \in Procs |-> NoRequest]
    /\ likes_data = [p \in Procs |-> <<>>]
    /\ counts = [p \in Procs |-> NoCounts]
    /\ response = NoResponse
    /\ prev_win = "none"
    /\ started = 0
    /\ completed = [g \in ABTestGroup |-> 0]
    /\ max_a = 0
    /\ max_b = 0

\* --------------------------------------------------------------- the clock
Tick ==
    /\ now < MaxTime
    /\ now' = now + 1
    /\ UNCHANGED <<rankVars, fileVars, graphVars, pc, req, likes_data, counts, response,
                   prev_win, started, histVars>>

\* ------------------------------------------------------- POST /like
\* like_note(user_id, note_id, ab_test) up to the commit of its graph write:
\* session.run(MERGE (u)-[:LIKED]->(n) SET n.like_count = ... + 1); then
\* record_like builds its LikeRecord with timestamp = datetime.now()
LikeNote(p, u, n, g) ==
    /\ pc[p] = "idle"
    /\ started < MaxCalls
    /\ started' = started + 1
    /\ liked' = liked \cup {<<u, n>>}
    /\ like_count' = [like_count EXCEPT ![n] = @ + 1]
    /\ req' = [req EXCEPT ![p] = [user_id |-> u, note_id |-> n, ab_group |-> g,
                                  timestamp |-> now]]
    /\ pc' = [pc EXCEPT ![p] = "load_likes"]
    /\ UNCHANGED <<rankVars, now, fileVars, likes_data, counts, response, prev_win, histVars>>

\* the graph store is unreachable: session.run raises and the handler's
\* except answers 500
LikeNoteStoreDown(p) ==
    /\ pc[p] = "idle"
    /\ started < MaxCalls
    /\ started' = started + 1
    /\ response' = Error("like", now)
    /\ prev_win' = Superseded
    /\ UNCHANGED <<rankVars, now, fileVars, graphVars, pc, req, likes_data, counts, histVars>>

\* likes_data = self._load_likes_data(); likes_data.append(record)
LoadLikes(p) ==
    /\ pc[p] = "load_likes"
    /\ likes_data' = [likes_data EXCEPT ![p] =
                         Append(LoadLikesData(likesFile), LikeRecord(req[p]))]
    /\ pc' = [pc EXCEPT ![p] = "open_likes"]
    /\ UNCHANGED <<rankVars, now, fileVars, graphVars, req, counts, response, prev_win,
                   started, histVars>>

\* _save_likes_data: open(ab_test_data_path, 'w')
OpenLikes(p) ==
    /\ pc[p] = "open_likes"
    /\ likesFile' = TruncatedLikes
    /\ pc' = [pc EXCEPT ![p] = "dump_likes"]
    /\ UNCHANGED <<rankVars, now, countsFile, graphVars, req, likes_data, counts, response,
                   prev_win, started, histVars>>

\* _save_likes_data: json.dump(data, f) and the close of the with block
SaveLikes(p) ==
    /\ pc[p] = "dump_likes"
    /\ likesFile' = DumpLikes(likesFile, likes_data[p])
    /\ likes_data' = [likes_data EXCEPT ![p] = <<>>]
    /\ pc' = [pc EXCEPT ![p] = "read_counts"]
    /\ UNCHANGED <<rankVars, now, countsFile, graphVars, req, counts, response, prev_win,
                   started, histVars>>

\* _increment_count: counts = self.get_counts(), the increment and
\* counts["last_updated"] = datetime.now()
ReadCounts(p) ==
    /\ pc[p] = "read_counts"
    /\ countsFile.valid
    /\ counts' = [counts EXCEPT ![p] =
                     Incremented([a |-> countsFile.a, b |-> countsFile.b,
                                  last_updated |-> countsFile.last_updated],
                                 req[p].ab_group, now)]
    /\ pc' = [pc EXCEPT ![p] = "open_counts"]
    /\ UNCHANGED <<rankVars, now, fileVars, graphVars, req, likes_data, response, prev_win,
                   started, histVars>>

\* (a variant of ReadCountsFail that swallows the exception and answers
\* "success")
ReadCountsFailSilent(p) ==
    /\ pc[p] = "read_counts"
    /\ ~countsFile.valid
    /\ pc' = [pc EXCEPT ![p] = "idle"]
    /\ response' = [op |-> "like", value |-> "success", a |-> 0, b |-> 0, at |-> now]
    /\ prev_win' = Superseded
    /\ req' = [req EXCEPT ![p] = NoRequest]
    /\ UNCHANGED <<rankVars, now, fileVars, graphVars, likes_data, counts, started,
                   histVars>>

\* get_counts on a file another request has opened for writing: json.load
\* raises, record_like and like_note do not catch it before the handler's
\* except, which answers 500
ReadCountsFail(p) ==
    /\ pc[p] = "read_counts"
    /\ ~countsFile.valid
    /\ pc' = [pc EXCEPT ![p] = "idle"]
    /\ response' = Error("like", now)
    /\ prev_win' = Superseded
    /\ req' = [req EXCEPT ![p] = NoRequest]
    /\ UNCHANGED <<rankVars, now, fileVars, graphVars, likes_data, counts, started, histVars>>

\* _increment_count: open(ab_test_counts_path, 'w')
OpenCounts(p) ==
    /\ pc[p] = "open_counts"
    /\ countsFile' = TruncatedCounts
    /\ pc' = [pc EXCEPT ![p] = "dump_counts"]
    /\ UNCHANGED <<rankVars, now, likesFile, graphVars, req, likes_data, counts, response,
                   prev_win, started, histVars>>

\* _increment_count: json.dump(counts, f) and the close; record_like returns,
\* like_note queues the retraining task (it only reads the log) and answers
\* "success"
SaveCounts(p) ==
    /\ pc[p] = "dump_counts"
    /\ countsFile' = [exists |-> TRUE, valid |-> TRUE, a |-> counts[p].a,
                      b |-> counts[p].b, last_updated |-> counts[p].last_updated]
    /\ max_a' = Max(max_a, counts[p].a)
    /\ max_b' = Max(max_b, counts[p].b)
    /\ completed' = [completed EXCEPT ![req[p].ab_group] = @ + 1]
    /\ pc' = [pc EXCEPT ![p] = "idle"]
    /\ response' = [op |-> "like", value |-> "success", a |-> 0, b |-> 0, at |-> now]
    /\ req' = [req EXCEPT ![p] = NoRequest]
    /\ counts' = [counts EXCEPT ![p] = NoCounts]
    /\ prev_win' = Superseded
    /\ UNCHANGED <<rankVars, now, likesFile, graphVars, likes_data, started>>

\* ------------------------------------------------- get_winning_group
\* counts = self.get_counts()
GetWinningGroup(p) ==
    /\ pc[p] = "idle"
    /\ started < MaxCalls
    /\ countsFile.valid
    /\ started' = started + 1
    /\ counts' = [counts EXCEPT ![p] = [a |-> countsFile.a, b |-> countsFile.b,
                                        last_updated |-> countsFile.last_updated]]
    /\ pc' = [pc EXCEPT ![p] = "gw_decide"]
    /\ UNCHANGED <<rankVars, now, fileVars, graphVars, req, likes_data, response, prev_win,
                   histVars>>

\* get_counts on the file while a writer has it open and empty: json.load
\* raises, and get_winning_group does not return
GetWinningGroupFail(p) ==
    /\ pc[p] = "idle"
    /\ started < MaxCalls
    /\ ~countsFile.valid
    /\ started' = started + 1
    /\ response' = Error("winning_group", now)
    /\ prev_win' = Superseded
    /\ UNCHANGED <<rankVars, now, fileVars, graphVars, pc, req, likes_data, counts, histVars>>

\* ------------------------------------------------- GET /ab_test_counts
\* get_ab_test_counts: counts = ab_test_service.get_counts(), answered as
\* ABTestCounts(**counts)
GetCounts(p) ==
    /\ pc[p] = "idle"
    /\ started < MaxCalls
    /\ countsFile.valid
    /\ started' = started + 1
    /\ response' = [op |-> "get_counts", value |-> "counts", a |-> countsFile.a,
                    b |-> countsFile.b, at |-> now]
    /\ prev_win' = Superseded
    /\ UNCHANGED <<rankVars, now, fileVars, graphVars, pc, req, likes_data, counts,
                   histVars>>

\* get_counts on the file while a writer has it open and empty: json.load
\* raises and the handler's except answers 500
GetCountsFail(p) ==
    /\ pc[p] = "idle"
    /\ started < MaxCalls
    /\ ~countsFile.valid
    /\ started' = started + 1
    /\ response' = Error("get_counts", now)
    /\ prev_win' = Superseded
    /\ UNCHANGED <<rankVars, now, fileVars, graphVars, pc, req, likes_data, counts,
                   histVars>>

\* (a variant of GwDecide that keeps the group decided by an earlier call)
GwDecideFrozen(p) ==
    /\ pc[p] = "gw_decide"
    /\ response' = [op |-> "winning_group",
                    value |-> IF Superseded \in ABTestGroup THEN Superseded
                              ELSE WinningGroup(counts[p], now),
                    a |-> counts[p].a, b |-> counts[p].b, at |-> now]
    /\ prev_win' = Superseded
    /\ counts' = [counts EXCEPT ![p] = NoCounts]
    /\ pc' = [pc EXCEPT ![p] = "idle"]
    /\ UNCHANGED <<rankVars, now, fileVars, graphVars, req, likes_data,
                   started, histVars>>

\* the comparison of datetime.now() with the threshold and of the counts
GwDecide(p) ==
    /\ pc[p] = "gw_decide"
    /\ response' = [op |-> "winning_group", value |-> WinningGroup(counts[p], now),
                    a |-> counts[p].a, b |-> counts[p].b, at |-> now]
    /\ prev_win' = Superseded
    /\ counts' = [counts EXCEPT ![p] = NoCounts]
    /\ pc' = [pc EXCEPT ![p] = "idle"]
    /\ UNCHANGED <<rankVars, now, fileVars, graphVars, req, likes_data,
                   started, histVars>>

Next ==
    \/ Tick
    \/ \E p \in Procs, u \in Users, n \in Notes, g \in ABTestGroup : LikeNote(p, u, n, g)
    \/ \E p \in Procs : LikeNoteStoreDown(p)
    \/ \E p \in Procs : LoadLikes(p)
    \/ \E p \in Procs : OpenLikes(p)
    \/ \E p \in Procs : SaveLikes(p)
    \/ \E p \in Procs : ReadCounts(p)
    \/ \E p \in Procs : ReadCountsFail(p)
    \/ \E p \in Procs : OpenCounts(p)
    \/ \E p \in Procs : SaveCounts(p)
    \/ \E p \in Procs : GetWinningGroup(p)
    \/ \E p \in Procs : GetWinningGroupFail(p)
    \/ \E p \in Procs : GwDecide(p)
    \/ \E p \in Procs : GetCounts(p)
    \/ \E p \in Procs : GetCountsFail(p)

Spec == Init /\ [][Next]_vars

\* ------------------------------------------------- the ranker's inputs
RankUsers == {"u1", "u2"}

\* the scores the scorer may return, and the draws of random.uniform(0, 1),
\* in thousandths
GnnScores == {250, 750}
RandomDraws == {0, 1000}

\* a graph and an experiment state the service can be in when a ranking
\* request arrives: any corpus of the profiles, u1 having liked n1 or not
\* (a like adds one to the note's like_count and, sent for group A, one to
\* count_A of the counters record); the clock before or at the threshold
InitRank ==
    /\ \E prof \in {f \in [NoteIds -> UNION {Profiles[n] : n \in NoteIds}] :
                        \A n \in NoteIds : f[n] \in Profiles[n]} :
          /\ notes = [n \in NoteIds |-> prof[n].node]
          /\ \E likes \in SUBSET ({"u1"} \X {"n1"}) :
                /\ liked = likes
                /\ like_count =
                      [n \in NoteIds |->
                          prof[n].like_count
                          + Cardinality({e \in likes : e[2] = n})]
                /\ countsFile = [InitialCounts EXCEPT !.a = Cardinality(likes)]
    /\ now \in {0, ab_test_threshold_date}
    /\ likesFile = [exists |-> FALSE, valid |-> FALSE, size |-> 0, data |-> <<>>]
    /\ pc = [p \in Procs |-> "idle"]
    /\ req = [p \in Procs |-> NoRequest]
    /\ likes_data = [p \in Procs |-> <<>>]
    /\ counts = [p \in Procs |-> NoCounts]
    /\ response = NoResponse
    /\ prev_win = "none"
    /\ rank = NoRank
    /\ call = NoCall
    /\ started = 0
    /\ completed = [g \in ABTestGroup |-> 0]
    /\ max_a = 0
    /\ max_b = 0

\* nothing has been called yet in this behaviour
Fresh == ~rank.called /\ call.op = "none"

\* one call of get_recommendations, store and scorer in reach
GetRecommendations(user_id, ab_group, limit, gnn, rand) ==
    /\ Fresh
    /\ rank' = [called |-> TRUE, user_id |-> user_id, ab_group |-> ab_group,
                limit |-> limit, gnn |-> gnn, rand |-> rand,
                store |-> "up", scorer |-> "up", status |-> "ok",
                result |-> get_recommendations(user_id, ab_group, limit, gnn, rand)]
    /\ UNCHANGED <<now, fileVars, graphVars, notes, call, pc, req, likes_data,
                   counts, response, prev_win, started, histVars>>

\* one call of get_recommendations in which predict_scores raises: nothing
\* catches the exception before recommend_notes, which answers 500.
\* predict_scores is reached only with notes to score.
GetRecommendationsScorerDown(user_id, ab_group, limit) ==
    /\ Fresh
    /\ get_all_notes_with_features # <<>>
    /\ rank' = [NoRank EXCEPT !.called = TRUE, !.user_id = user_id,
                              !.ab_group = ab_group, !.limit = limit,
                              !.scorer = "down", !.status = "error"]
    /\ UNCHANGED <<now, fileVars, graphVars, notes, call, pc, req, likes_data,
                   counts, response, prev_win, started, histVars>>

\* the queries of one ranking request, in the order they are sent
RankQueries ==
    {"get_all_notes_with_features", "personalized_pagerank", "get_note_features"}

\* one call of get_recommendations with the store out of reach from query
\* at on: get_all_notes_with_features catches the exception and returns [],
\* which get_recommendations returns as its result; personalized_pagerank
\* and get_note_features (called by predict_scores) let it through
GetRecommendationsStoreDown(user_id, ab_group, limit, at) ==
    /\ Fresh
    /\ at # "get_all_notes_with_features" => get_all_notes_with_features # <<>>
    /\ rank' = [NoRank EXCEPT !.called = TRUE, !.user_id = user_id,
                              !.ab_group = ab_group, !.limit = limit,
                              !.store = at,
                              !.status = IF at = "get_all_notes_with_features"
                                         THEN "ok" ELSE "error"]
    /\ UNCHANGED <<now, fileVars, graphVars, notes, call, pc, req, likes_data,
                   counts, response, prev_win, started, histVars>>

\* one call of personalized_pagerank, the store in reach
PersonalizedPagerank(user_id, limit) ==
    /\ Fresh
    /\ call' = [NoCall EXCEPT !.op = "personalized_pagerank",
                              !.user_id = user_id, !.limit = limit,
                              !.status = "ok",
                              !.rows = personalized_pagerank(user_id, limit)]
    /\ UNCHANGED <<now, fileVars, graphVars, notes, rank, pc, req, likes_data,
                   counts, response, prev_win, started, histVars>>

\* one call of get_note_features, the store in reach
GetNoteFeatures(note_id) ==
    /\ Fresh
    /\ call' = [NoCall EXCEPT !.op = "get_note_features",
                              !.note_id = note_id, !.status = "ok",
                              !.features = get_note_features(note_id)]
    /\ UNCHANGED <<now, fileVars, graphVars, notes, rank, pc, req, likes_data,
                   counts, response, prev_win, started, histVars>>

\* predict_scores answers for the note ids it was given, random.uniform is
\* drawn once per row of all_notes
NextRank ==
    \/ /\ Fresh
       /\ \E user_id \in RankUsers, ab_group \in ABTestGroup \cup {"None"},
             limit \in 0..MaxLimit,
             gnn \in [{r.note_id : r \in Range(get_all_notes_with_features)}
                        -> GnnScores],
             rand \in [DOMAIN get_all_notes_with_features -> RandomDraws] :
              GetRecommendations(user_id, ab_group, limit, gnn, rand)
    \/ \E user_id \in RankUsers, ab_group \in ABTestGroup \cup {"None"},
          limit \in 0..MaxLimit :
           \/ GetRecommendationsScorerDown(user_id, ab_group, limit)
           \/ \E at \in RankQueries :
                 GetRecommendationsStoreDown(user_id, ab_group, limit, at)
    \/ \E user_id \in RankUsers, limit \in 0..MaxLimit :
           PersonalizedPagerank(user_id, limit)
    \/ \E note_id \in NoteIds : GetNoteFeatures(note_id)

SpecRank == InitRank /\ [][NextRank]_vars

\* ------------------------------------------------ the recency score
\* the lists of notes _calculate_recency_scores is called with: up to
\* MaxBatch notes, each with a created_date of one of the ages or with none
\* that parses
Batches == UNION {[1..k -> Ages \cup {Null}] : k \in 0..MaxBatch}

InitRecency ==
    /\ \E days \in Batches : call = [NoCall EXCEPT !.days_old = days]
    /\ now = 0
    /\ countsFile = InitialCounts
    /\ likesFile = [exists |-> FALSE, valid |-> FALSE, size |-> 0, data |-> <<>>]
    /\ liked = {}
    /\ like_count = [n \in NoteIds |-> 0]
    /\ notes = [n \in NoteIds |-> AbsentNote]
    /\ rank = NoRank
    /\ pc = [p \in Procs |-> "idle"]
    /\ req = [p \in Procs |-> NoRequest]
    /\ likes_data = [p \in Procs |-> <<>>]
    /\ counts = [p \in Procs |-> NoCounts]
    /\ response = NoResponse
    /\ prev_win = "none"
    /\ started = 0
    /\ completed = [g \in ABTestGroup |-> 0]
    /\ max_a = 0
    /\ max_b = 0

\* one call of _calculate_recency_scores
CalculateRecencyScores ==
    /\ Fresh
    /\ call' = [call EXCEPT !.op = "_calculate_recency_scores",
                            !.status = "ok",
                            !.rows = _calculate_recency_scores(call.days_old)]
    /\ UNCHANGED <<now, fileVars, graphVars, notes, rank, pc, req, likes_data,
                   counts, response, prev_win, started, histVars>>

NextRecency == CalculateRecencyScores

SpecRecency == InitRecency /\ [][NextRecency]_vars

\* ------------------------------------------------ the scorer's edges
\* (a variant of Neighbours that links a node to the next node only)
NeighboursNextOnly(i, num_nodes) == (i + 1) .. (Min(i + 2, num_nodes) - 1)

\* range(i+1, min(i+3, num_nodes)): the nodes the inner loop links i to
Neighbours(i, num_nodes) == (i + 1) .. (Min(i + 3, num_nodes) - 1)

\* torch.tensor([[0], [0]]): the one edge from node 0 to itself
SelfLoop == << <<0, 0>> >>

\* a call of _create_dummy_edges that has not started
NoEdges == [op |-> "none", num_nodes |-> 0, i |-> 0, j |-> 0, edges |-> <<>>,
            status |-> "none", edge_index |-> <<>>]

\* the batches predict_scores builds edges for: 0 to MaxNodes notes
InitEdges ==
    /\ \E n \in 0..MaxNodes : call = [NoEdges EXCEPT !.num_nodes = n]
    /\ now = 0
    /\ countsFile = InitialCounts
    /\ likesFile = [exists |-> FALSE, valid |-> FALSE, size |-> 0, data |-> <<>>]
    /\ liked = {}
    /\ like_count = [n \in NoteIds |-> 0]
    /\ notes = [n \in NoteIds |-> AbsentNote]
    /\ rank = NoRank
    /\ pc = [p \in Procs |-> "idle"]
    /\ req = [p \in Procs |-> NoRequest]
    /\ likes_data = [p \in Procs |-> <<>>]
    /\ counts = [p \in Procs |-> NoCounts]
    /\ response = NoResponse
    /\ prev_win = "none"
    /\ started = 0
    /\ completed = [g \in ABTestGroup |-> 0]
    /\ max_a = 0
    /\ max_b = 0

edgeFrame == <<now, fileVars, graphVars, notes, rank, pc, req, likes_data,
               counts, response, prev_win, started, histVars>>

\* _create_dummy_edges(1): the early return
SingleNode ==
    /\ call.op = "none"
    /\ call.num_nodes = 1
    /\ call' = [call EXCEPT !.op = "_create_dummy_edges", !.status = "ok",
                            !.edge_index = SelfLoop]
    /\ UNCHANGED edgeFrame

\* edges = [] and the entry of the outer loop
StartEdges ==
    /\ call.op = "none"
    /\ call.num_nodes # 1
    /\ call' = [call EXCEPT !.op = "_create_dummy_edges", !.status = "loop",
                            !.i = 0, !.j = 1, !.edges = <<>>]
    /\ UNCHANGED edgeFrame

\* one pass of the inner loop: edges.append([i, j]); edges.append([j, i])
AppendEdges ==
    /\ call.status = "loop"
    /\ call.i < call.num_nodes
    /\ call.j \in Neighbours(call.i, call.num_nodes)
    /\ call' = [call EXCEPT !.edges = @ \o << <<call.i, call.j>>,
                                              <<call.j, call.i>> >>,
                            !.j = @ + 1]
    /\ UNCHANGED edgeFrame

\* the inner loop's range is exhausted: the next i of range(num_nodes)
NextNode ==
    /\ call.status = "loop"
    /\ call.i < call.num_nodes
    /\ call.j \notin Neighbours(call.i, call.num_nodes)
    /\ call' = [call EXCEPT !.i = @ + 1, !.j = call.i + 2]
    /\ UNCHANGED edgeFrame

\* the outer loop is over: the self-loop when no edge was appended,
\* torch.tensor(edges).t() otherwise
ReturnEdges ==
    /\ call.status = "loop"
    /\ call.i >= call.num_nodes
    /\ call' = [call EXCEPT !.status = "ok",
                            !.edge_index = IF call.edges = <<>> THEN SelfLoop
                                           ELSE call.edges]
    /\ UNCHANGED edgeFrame

NextEdges ==
    \/ SingleNode
    \/ StartEdges
    \/ AppendEdges
    \/ NextNode
    \/ ReturnEdges

SpecEdges == InitEdges /\ [][NextEdges]_vars

\* ------------------------------------- the construction of the service
\* os.path.exists(ab_test_counts_path) is false
AbsentCounts ==
    [exists |-> FALSE, valid |-> FALSE, a |-> 0, b |-> 0, last_updated |-> 0]

\* (a variant of _initialize_counts_file that writes the initial record
\* whether the file exists or not)
_initialize_counts_file_always(f, t) == [InitialCounts EXCEPT !.last_updated = t]

\* _initialize_counts_file on the counters file f at datetime.now() = t
_initialize_counts_file(f, t) ==
    IF ~f.exists THEN [InitialCounts EXCEPT !.last_updated = t] ELSE f

\* what a starting process can find at ab_test_counts_path at time t: no
\* file, a file left empty by an interrupted write, or a record written
\* at or before t
CountsFiles(t) ==
    {AbsentCounts, TruncatedCounts} \cup
    {[InitialCounts EXCEPT !.a = a, !.b = b, !.last_updated = u] :
        a \in 0..MaxCount, b \in 0..MaxCount, u \in 0..t}

InitService ==
    /\ now \in 0..MaxTime
    /\ countsFile \in CountsFiles(now)
    /\ likesFile = [exists |-> FALSE, valid |-> FALSE, size |-> 0, data |-> <<>>]
    /\ liked = {}
    /\ like_count = [n \in NoteIds |-> 0]
    /\ notes = [n \in NoteIds |-> AbsentNote]
    /\ rank = NoRank
    /\ call = NoCall
    /\ pc = [p \in Procs |-> "idle"]
    /\ req = [p \in Procs |-> NoRequest]
    /\ likes_data = [p \in Procs |-> <<>>]
    /\ counts = [p \in Procs |-> NoCounts]
    /\ response = NoResponse
    /\ prev_win = "none"
    /\ started = 0
    /\ completed = [g \in ABTestGroup |-> 0]
    /\ max_a = 0
    /\ max_b = 0

\* get_ab_test_service(): ABTestService() and its _initialize_counts_file
GetAbTestService ==
    /\ call.op = "none"
    /\ call' = [call EXCEPT !.op = "get_ab_test_service", !.status = "ok"]
    /\ countsFile' = _initialize_counts_file(countsFile, now)
    /\ UNCHANGED <<now, likesFile, graphVars, notes, rank, pc, req, likes_data,
                   counts, response, prev_win, started, histVars>>

NextService ==
    \/ Tick
    \/ GetAbTestService

SpecService == InitService /\ [][NextService]_vars

\* =================================================================
\* The experiment controller's properties
\* =================================================================
Quiescent == \A p \in Procs : pc[p] = "idle"

\* the entries a reader of the like-event log gets
Log == IF likesFile.exists /\ likesFile.valid THEN likesFile.data ELSE <<>>

Logged(g) == Cardinality({i \in DOMAIN Log : Log[i].ab_group = g})

Counter(g) == IF g = "A" THEN countsFile.a ELSE countsFile.b

\* C1: once every record_like call has completed, each counter equals the
\* number of calls made for its group, so count_A + count_B is the number
\* of calls: no increment is lost under any interleaving.
C1_NoLostUpdate ==
    Quiescent =>
        /\ countsFile.valid
        /\ countsFile.a = completed["A"]
        /\ countsFile.b = completed["B"]

\* C2: the log append and the counter increment are applied as one unit:
\* with no call in progress, also after a call has failed part-way, each
\* group has as many logged events as counted likes.
C2_LogAndCounterTogether ==
    Quiescent => \A g \in ABTestGroup : countsFile.valid /\ Logged(g) = Counter(g)

\* C3: the counters are non-negative integers, no write of the record
\* lowers a counter below a value it has held, and every increment
\* rewrites last_updated with the time of that increment.
C3_CountersMonotone ==
    [][countsFile'.valid =>
          /\ countsFile'.a \in Nat /\ countsFile'.b \in Nat
          /\ countsFile'.a >= max_a /\ countsFile'.b >= max_b
          /\ \A p \in Procs :
                (pc[p] = "dump_counts" /\ pc'[p] = "idle")
                    => countsFile'.last_updated = counts[p].last_updated]_vars

\* the record_like calls entered so far: like_note enters one after each
\* graph write
Recorded == SumOver(Notes, like_count)

\* C4: the like-event log is append-only with one entry per like: with no
\* call in progress, the entry of every completed record_like is still in
\* the log (none was removed), and the log has no more entries than calls.
C4_OneEntryPerLike ==
    Quiescent =>
        /\ Len(Log) >= completed["A"] + completed["B"]
        /\ Len(Log) <= Recorded

\* C5: get_winning_group answers None whenever the time is strictly before
\* the threshold, whatever the counters record holds.
C5_NoneBeforeThreshold ==
    (response.op = "winning_group" /\ response.at < ab_test_threshold_date)
        => response.value = "None"

\* C6: at or after the threshold get_winning_group returns A exactly when
\* count_A > count_B and B exactly when count_A <= count_B, ties included
\* (a, b: the counts the call read).
C6_WinnerByCounts ==
    (response.op = "winning_group" /\ response.at >= ab_test_threshold_date
     /\ response.value # "error")
        => /\ response.value = "A" <=> response.a > response.b
           /\ response.value = "B" <=> response.a <= response.b

C6_Witness ==
    /\ response.op = "winning_group"
    /\ response.value = "B"
    /\ response.a = response.b
    /\ response.a > 0

\* C7: Collecting -> Decided.  The clock never goes back, so the threshold
\* once passed stays passed; from then on a call never returns None, and
\* the group it returns is the leader of the counts that very call read,
\* whatever group an earlier call decided.
C7_DecidedAndReevaluated ==
    [][/\ now' >= now
       /\ (response'.op = "winning_group"
           /\ response'.at >= ab_test_threshold_date
           /\ response'.value # "error")
            => /\ response'.value \in ABTestGroup
               /\ response'.value =
                     IF response'.a > response'.b THEN "A" ELSE "B"]_vars

\* a call decided B, a like for A followed, and the next call decides A
C7_Witness ==
    /\ response.op = "winning_group"
    /\ response.at >= ab_test_threshold_date
    /\ response.value = "A"
    /\ prev_win = "B"


\* ------------------------------------------------------ ranking claims
\* a ranking call that ran with store and scorer in reach
CompletedCall ==
    rank.called /\ rank.status = "ok" /\ rank.store = "up" /\ rank.scorer = "up"

\* the rows get_recommendations ranked
Ranked == get_all_notes_with_features

Ids(rows) == [i \in DOMAIN rows |-> rows[i].note_id]

\* C8 as stated: for every user_id and every limit, get_recommendations
\* returns at most limit notes and their final scores are strictly
\* descending from first to last.
C8_StrictlyDescending ==
    CompletedCall =>
        /\ Len(rank.result) <= rank.limit
        /\ \A i, j \in DOMAIN rank.result :
              i < j => rank.result[i].score > rank.result[j].score

\* C8, amended: for every user_id and every limit >= 0, get_recommendations
\* returns at most limit notes and their final scores never increase from
\* first to last (notes with equal final scores stay adjacent, in the order
\* of all_notes).
C8_NonIncreasing ==
    CompletedCall =>
        /\ Len(rank.result) <= rank.limit
        /\ \A i, j \in DOMAIN rank.result :
              i < j => rank.result[i].score >= rank.result[j].score

\* a call that cut the list at limit and returned two notes with the same
\* final score ahead of a note with a lower one
C8_Witness ==
    /\ CompletedCall
    /\ rank.limit >= 2
    /\ Len(Ranked) > rank.limit
    /\ Len(rank.result) = rank.limit
    /\ rank.result[1].score = rank.result[2].score
    /\ \E n \in Range(Ids(Ranked)) : n \notin Range(Ids(rank.result))

\* the group whose fusion policy the contract prescribes for a call: the
\* decided winner, else the group the caller passed
EffectiveGroup ==
    LET winner == WinningGroup(countsFile, now)
    IN  IF winner \in ABTestGroup THEN winner ELSE rank.ab_group

\* the contract's alternate fusion, (w1, w2) in tenths
ABWeights == [A |-> <<4, 6>>, B |-> <<6, 4>>]

\* w1 * graph_score + w2 * neural in millionths, graph_score in tenths and
\* neural in thousandths
ABScore(g, graph_score, neural) ==
    ABWeights[g][1] * graph_score * 10000 + ABWeights[g][2] * neural * 100

\* the candidates of the call, as the ranker asks for them
GraphCandidates == personalized_pagerank(rank.user_id, rank.limit * 3)

\* the list the alternate fusion of group g prescribes for the call: the
\* graph candidates by ABScore, descending, cut at limit
ABRanking(g) ==
    Take(SortDesc([i \in DOMAIN GraphCandidates |->
                     [note_id |-> GraphCandidates[i].note_id,
                      score |-> ABScore(g, GraphCandidates[i].score,
                                        GnnScore(rank.gnn,
                                                 GraphCandidates[i].note_id))]]),
         rank.limit)

\* C9: the group passed to get_recommendations decides the fusion policy
\* only while get_winning_group is None; once a winner is decided the list
\* is the one the winner's policy gives, whatever group was passed.
C9_WinnerOverridesGroup ==
    (CompletedCall /\ EffectiveGroup \in ABTestGroup) =>
        Ids(rank.result) = Ids(ABRanking(EffectiveGroup))

\* C10: while an experiment is active every returned note is one of the
\* graph candidates and its final score is w1 * graph_score + w2 * neural,
\* (w1, w2) = (0.4, 0.6) for group A and (0.6, 0.4) for group B.
C10_AlternateFusion ==
    (CompletedCall /\ EffectiveGroup \in ABTestGroup) =>
        \A i \in DOMAIN rank.result :
            /\ rank.result[i].note_id \in Range(Ids(GraphCandidates))
            /\ rank.result[i].score =
                  ABScore(EffectiveGroup,
                          GraphScore(GraphCandidates, rank.result[i].note_id),
                          GnnScore(rank.gnn, rank.result[i].note_id))


\* ------------------------------------------- the contract's formulas
\* 0.3 view + 0.3 download + 0.4 like of a note, in tenths
Popularity(n) ==
    3 * Coalesce(notes[n].view_count) + 3 * Coalesce(notes[n].download_count)
    + 4 * Coalesce(like_count[n])

\* the notes that are ranked, and the largest view and download counts
\* among them (a zero maximum replaced by 1)
RankedIds == Range(Ids(Ranked))

MaxView ==
    LET views == {Coalesce(notes[n].view_count) : n \in RankedIds} \cup {0}
        m == CHOOSE v \in views : \A w \in views : w <= v
    IN  IF m = 0 THEN 1 ELSE m

MaxDownload ==
    LET downloads == {Coalesce(notes[n].download_count) : n \in RankedIds} \cup {0}
        m == CHOOSE v \in downloads : \A w \in downloads : w <= v
    IN  IF m = 0 THEN 1 ELSE m

\* traditional = 0.3 view / max_view + 0.3 download / max_download
\* + 0.4 rating / 5, in thousandths
Traditional(n) ==
    (300 * Coalesce(notes[n].view_count)) \div MaxView
    + (300 * Coalesce(notes[n].download_count)) \div MaxDownload
    + 8 * Coalesce(notes[n].rating)

\* the recency of a note of the corpus, in thousandths
Recency(n) ==
    IF notes[n].days_old = Null THEN 500 ELSE ExpDecay(notes[n].days_old)

\* graph_boost of a note in the call that was made, in thousandths
Boost(n) ==
    LET candidates == GraphCandidates
    IN  IF n \in Range(Ids(candidates))
        THEN Min(GraphScore(candidates, n) * 10, 300)
        ELSE 0

\* a completed ranking call for a user without likes, in which every note
\* got the same neural score and the same random draw
ColdStartCall ==
    /\ CompletedCall
    /\ LikedBy(rank.user_id) = {}
    /\ \A m, n \in DOMAIN rank.gnn : rank.gnn[m] = rank.gnn[n]
    /\ \A i, j \in DOMAIN rank.rand : rank.rand[i] = rank.rand[j]

\* the corpus of the contract's example: n1 (view 100, download 50, like 10,
\* rating 4.5) and n2 (view 10, download 5, like 100, rating 2.0)
ExampleCorpus ==
    /\ notes = [n1 |-> SyncedOld, n2 |-> SyncedNew, n3 |-> AbsentNote]
    /\ like_count = [n1 |-> 10, n2 |-> 100, n3 |-> 0]

\* the returned notes are the first of the ranked notes in descending order
\* of key
OrderedBy(key) ==
    /\ \A i, j \in DOMAIN rank.result :
          i < j => key[rank.result[i].note_id] >= key[rank.result[j].note_id]
    /\ \A i \in DOMAIN rank.result :
          \A n \in RankedIds \ Range(Ids(rank.result)) :
              key[rank.result[i].note_id] >= key[n]

\* C11 as stated: for a user with zero likes, the random term fixed and the
\* neural score equal for all notes, get_recommendations returns the notes
\* in descending order of 0.3 view + 0.3 download + 0.4 like; for the
\* example corpus and limit 1 it returns ["n1"].
C11_OrderedByPopularity ==
    ColdStartCall =>
        /\ OrderedBy([n \in NoteIds |-> Popularity(n)])
        /\ (ExampleCorpus /\ rank.limit = 1) => Ids(rank.result) = <<"n1">>

\* C11, amended: for a user with zero likes, the random term fixed and the
\* neural score equal for all notes, get_recommendations returns the notes
\* in descending order of 0.35 traditional + 0.15 recency + graph_boost,
\* the popularity 0.3 view + 0.3 download + 0.4 like entering only as
\* graph_boost = min(popularity / 10, 0.3) of the 3 * limit most popular
\* notes; for the example corpus and limit 1 it returns ["n1"].
C11_OrderedByFusion ==
    ColdStartCall =>
        /\ OrderedBy([n \in NoteIds |->
                        traditional_weight * Traditional(n)
                        + recency_weight * Recency(n)
                        + 1000 * (IF n \in Range(Ids(_get_popular_notes(rank.limit * 3)))
                                  THEN Min(Popularity(n) * 10, 300) ELSE 0)])
        /\ (ExampleCorpus /\ rank.limit = 1) => Ids(rank.result) = <<"n1">>

\* a cold-start call that returned a less popular note ahead of a more
\* popular one
C11_Witness ==
    /\ ColdStartCall
    /\ Len(rank.result) >= 2
    /\ Popularity(rank.result[1].note_id) < Popularity(rank.result[2].note_id)


\* the top limit of the notes in S by key: rows holds limit notes of S (all
\* of them if S has fewer), each with its key as score, in descending order,
\* and no note left out has a higher key than a note in rows
TopBy(rows, S, key, limit) ==
    /\ Len(rows) = Min(limit, Cardinality(S))
    /\ \A i \in DOMAIN rows : rows[i].note_id \in S
    /\ \A i \in DOMAIN rows : rows[i].score = key[rows[i].note_id]
    /\ \A i, j \in DOMAIN rows :
          i < j => /\ rows[i].note_id # rows[j].note_id
                   /\ rows[i].score >= rows[j].score
    /\ \A i \in DOMAIN rows : \A n \in S \ Range(Ids(rows)) :
          rows[i].score >= key[n]

\* the notes that share a tag with a note the user liked and that the user
\* has not liked
Propagated(u) ==
    {c \in Present :
        /\ <<u, c>> \notin liked
        /\ \E l \in Present : <<u, l>> \in liked /\ notes[l].tags \cap notes[c].tags # {}}

\* C12: personalized_pagerank returns, without raising, the top limit notes
\* by 0.3 view_count + 0.3 download_count + 0.4 like_count, descending, when
\* the user has no like, when the user is not in the graph, and when the
\* user has likes but the propagation over tags yields no candidate.
C12_PopularityFallback ==
    (/\ call.op = "personalized_pagerank"
     /\ \/ \A n \in NoteIds : <<call.user_id, n>> \notin liked
        \/ Propagated(call.user_id) = {})
    => /\ call.status = "ok"
       /\ TopBy(call.rows, Present, [n \in NoteIds |-> Popularity(n)], call.limit)

\* a user with a like and no candidate got the most popular notes, fewer
\* than the corpus holds
C12_Witness ==
    /\ call.op = "personalized_pagerank"
    /\ \E n \in NoteIds : <<call.user_id, n>> \in liked
    /\ Propagated(call.user_id) = {}
    /\ Len(call.rows) = call.limit
    /\ call.limit >= 1
    /\ call.limit < Cardinality(Present)


\* C13: when the neural scorer raises, get_recommendations still completes
\* and returns the ranked list, every note scored with the neural default
\* 0.5; the failure of the scorer does not fail the request.
C13_ScorerFailureTolerated ==
    (rank.called /\ rank.scorer = "down") =>
        /\ rank.status = "ok"
        /\ Len(rank.result) = Min(rank.limit, Cardinality(RankedIds))

\* C14: when the graph store is out of reach during a ranking request, at
\* whichever query, the request fails; it does not return a list, empty or
\* partial, as a success.
C14_StoreFailureSurfaces ==
    (rank.called /\ rank.store # "up") => rank.status = "error"


\* -------------------------------------------- like-recording failures
\* the positions of a like request inside record_like
LikeSteps ==
    {"load_likes", "open_likes", "dump_likes", "read_counts", "open_counts",
     "dump_counts"}

\* C15: a like request that finds the graph store or the counters record
\* out of reach answers an error; a like request answers "success" only in
\* the step that writes the counters record with the request's group
\* incremented.  No request ends in silence or in a success without its
\* write.
C15_NoSilentDrop ==
    [][/\ \A p \in Procs :
             (pc[p] \in LikeSteps /\ pc'[p] = "idle") =>
                 /\ response'.op = "like"
                 /\ \/ response'.value = "error" /\ countsFile' = countsFile
                    \/ /\ response'.value = "success"
                       /\ countsFile'.valid
                       /\ countsFile'.a = counts[p].a
                       /\ countsFile'.b = counts[p].b
                       /\ IF req[p].ab_group = "A" THEN counts[p].a >= 1
                          ELSE counts[p].b >= 1
       /\ (started' = started + 1 /\ pc' = pc /\ response'.op = "like") =>
             /\ response'.value = "error"
             /\ countsFile' = countsFile
       /\ (response' # response /\ response'.op = "like"
           /\ response'.value = "success") =>
             \E p \in Procs : pc[p] = "dump_counts" /\ pc'[p] = "idle"]_vars

\* two like requests passed the graph step, and one of them was answered
\* with an error because the counters record was unreadable
C15_Witness ==
    /\ response.op = "like"
    /\ response.value = "error"
    /\ ~countsFile.valid
    /\ \E p \in Procs : pc[p] = "dump_counts"
    /\ started = 2
    /\ Recorded = 2


\* ------------------------------------------------ the default fusion
\* the notes of the corpus with a title
Titled == {n \in Present : notes[n].title}

\* the random draws of the rows of note n in the call that was made
Draws(n) ==
    LET ranked == Ranked
    IN  {rank.rand[i] : i \in {j \in DOMAIN ranked : ranked[j].note_id = n}}

\* C16 as stated: every note with an id gets a final score and is eligible;
\* with limit at least the size of the corpus every note with an id is
\* returned.
C16_EveryNoteEligible ==
    (CompletedCall /\ rank.limit >= Cardinality(Present)) =>
        Range(Ids(rank.result)) = Present

\* C16, amended: every note with an id and a title gets a final score and is
\* eligible whatever other attribute is missing: a note without counters,
\* rating and parsable date is scored with traditional 0 and recency 0.5;
\* only notes without id or without title are left out, and with limit at
\* least the number of rows the store returns for the titled notes (one
\* per note, one per creator for a note with several) every titled note is
\* returned.
C16_EveryTitledNoteEligible ==
    CompletedCall =>
        /\ Range(Ids(rank.result)) \subseteq Titled
        /\ Len(rank.result) = Min(rank.limit, Len(Ranked))
        /\ rank.limit >= Len(Ranked) => Range(Ids(rank.result)) = Titled
        /\ \A i \in DOMAIN rank.result :
              LET n == rank.result[i].note_id
              IN  (/\ notes[n].view_count = Null
                   /\ notes[n].download_count = Null
                   /\ notes[n].rating = Null
                   /\ notes[n].days_old = Null)
                  => \E draw \in Draws(n) :
                        rank.result[i].score =
                            350 * GnnScore(rank.gnn, n) + 150 * 500
                            + 150 * draw + 1000 * Boost(n)

\* a call returned a note that has a title and nothing else, and left out
\* a note of the corpus that has no title
C16_Witness ==
    /\ CompletedCall
    /\ rank.limit >= Cardinality(Titled)
    /\ \E i \in DOMAIN rank.result :
          notes[rank.result[i].note_id].view_count = Null
    /\ Present \ Titled # {}
    /\ Len(rank.result) >= 2


\* 0.35 neural + 0.35 traditional + 0.15 recency + 0.15 random + graph_boost
\* of a ranked note in the call that was made, with the random draw of one
\* of its rows, in millionths
DefaultFusion(n, draw) ==
    350 * GnnScore(rank.gnn, n) + 350 * Traditional(n) + 150 * Recency(n)
    + 150 * draw + 1000 * Boost(n)

Propagation(u, c) ==
    5 * Cardinality({t \in notes[c].tags :
                        \E l \in Present : <<u, l>> \in liked /\ t \in notes[l].tags})
    + 3 * Cardinality({k \in {notes[c].category} \ {""} :
                          \E l \in Present :
                              <<u, l>> \in liked /\ notes[l].category = k})
    + 2 * like_count[c]

\* C18: for a user with at least one like, personalized_pagerank returns at
\* most limit records in descending order of graph_score, the score of a
\* propagated candidate being 0.5 tag_score + 0.3 category_score
\* + 0.2 like_count, and none of the notes the user has liked is in the
\* list, on the fallback path either.
C18_NoLikedCandidate ==
    (/\ call.op = "personalized_pagerank"
     /\ \E n \in Present : <<call.user_id, n>> \in liked)
    => /\ call.status = "ok"
       /\ Len(call.rows) <= call.limit
       /\ \A i, j \in DOMAIN call.rows :
             i < j => call.rows[i].score >= call.rows[j].score
       /\ Propagated(call.user_id) # {} =>
             \A i \in DOMAIN call.rows :
                 call.rows[i].score =
                     Propagation(call.user_id, call.rows[i].note_id)
       /\ \A i \in DOMAIN call.rows :
             <<call.user_id, call.rows[i].note_id>> \notin liked


\* ------------------------------------------------------ the recency score
\* C19: the recency score of a note with a parsable creation date falls as
\* days_since_creation grows, is 1.0 at 0 days, within 0.01 of 0.368 at 30
\* days, and lies in (0, 1].
C19_RecencyInUnitInterval ==
    call.op = "_calculate_recency_scores" =>
        \A i, j \in DOMAIN call.rows :
            (call.days_old[i] # Null /\ call.days_old[j] # Null) =>
                /\ call.days_old[i] < call.days_old[j] => call.rows[i] > call.rows[j]
                /\ call.days_old[i] = 0 => call.rows[i] = 1000
                /\ call.days_old[i] = 30 =>
                      (call.rows[i] >= 358 /\ call.rows[i] <= 378)
                /\ call.rows[i] > 0
                /\ call.rows[i] <= 1000


\* ------------------------------------------------ feature extraction
\* C20: get_note_features of a note without attributes, tags and category,
\* or of a note id that is not in the graph, returns like_count 0,
\* tag_count 0 and category "unknown"; every missing numeric attribute is
\* returned as 0 and a missing category as "unknown", what is stored is
\* returned as stored.
C20_FeatureDefaults ==
    call.op = "get_note_features" =>
        LET n == call.note_id
            f == call.features
        IN  /\ call.status = "ok"
            /\ ~notes[n].present =>
                  f = [like_count |-> 0, view_count |-> 0, download_count |-> 0,
                       rating |-> 0, tag_count |-> 0, category |-> "unknown"]
            /\ (/\ notes[n].present
                /\ notes[n].tags = {}
                /\ notes[n].category = ""
                /\ like_count[n] \in {0, Null}) =>
                  /\ f.like_count = 0
                  /\ f.tag_count = 0
                  /\ f.category = "unknown"
            /\ notes[n].present =>
                  /\ f.like_count = (IF like_count[n] = Null THEN 0 ELSE like_count[n])
                  /\ f.view_count = (IF notes[n].view_count = Null THEN 0
                                     ELSE notes[n].view_count)
                  /\ f.download_count = (IF notes[n].download_count = Null THEN 0
                                         ELSE notes[n].download_count)
                  /\ f.rating = (IF notes[n].rating = Null THEN 0
                                 ELSE notes[n].rating)
                  /\ f.tag_count = Cardinality(notes[n].tags)
                  /\ f.category = (IF notes[n].category = "" THEN "unknown"
                                   ELSE notes[n].category)

\* the features of a note in the graph that has neither counters nor rating
\* nor tag nor category were extracted
C20_Witness ==
    /\ call.op = "get_note_features"
    /\ notes[call.note_id].present
    /\ notes[call.note_id].view_count = Null
    /\ notes[call.note_id].tags = {}
    /\ notes[call.note_id].category = ""
    /\ call.features.category = "unknown"
    /\ call.features.view_count = 0

\* =================================================================
\* The scorer's edge set
\* =================================================================
\* the pairs (i, j) and (j, i) for 0 <= i < j <= min(i+2, n-1)
NextTwoNeighbours(n) ==
    UNION {{<<p[1], p[2]>>, <<p[2], p[1]>>} :
              p \in {q \in (0..(n - 1)) \X (0..(n + 1)) :
                        q[1] < q[2] /\ q[2] <= Min(q[1] + 2, n - 1)}}

EdgesBuilt == call.op = "_create_dummy_edges" /\ call.status = "ok"

Likers(n) == {u \in Users : <<u, n>> \in liked}

\* C22: after any sequence of like requests a note's like_count is the
\* number of distinct users with a LIKED relationship to it, so that a
\* repeated like of the same pair changes neither the relationships nor
\* like_count.
C22_LikeCountIsDistinctLikers ==
    \A n \in Notes : like_count[n] = Cardinality(Likers(n))

\* the like requests that are past their graph write and have not answered
InProgress == {p \in Procs : pc[p] \in LikeSteps}

\* C23: a like request that answered an error has had no effect: every
\* increment of a like_count belongs to a request that is still running or
\* that answered "success", and none is left over from a request that
\* answered an error.
C23_ErrorHasNoEffect ==
    Recorded = completed["A"] + completed["B"] + Cardinality(InProgress)

\* C24: a get_counts or get_winning_group call that runs while a
\* record_like is in progress obtains a well-formed counters record and
\* is never answered with an error.
C24_ReadersNeverFail ==
    response.op \in {"get_counts", "winning_group"} => response.value # "error"

\* =================================================================
\* The counters across a restart
\* =================================================================
\* the step in which the service is constructed
Constructed == call.op = "none" /\ call'.op = "get_ab_test_service"

\* C25: constructing the service when a counters record exists leaves
\* count_A, count_B and last_updated as they are; the counters are set to
\* (0, 0) only when no record exists.
C25_ConstructionKeepsCounts ==
    [][Constructed =>
          /\ countsFile.exists => countsFile' = countsFile
          /\ countsFile' # countsFile =>
                /\ ~countsFile.exists
                /\ countsFile'.valid
                /\ countsFile'.a = 0 /\ countsFile'.b = 0]_vars

\* the service was constructed at time 1 on a record (2, 1) written at
\* time 0, and the record is as it was
C25_Witness ==
    /\ call.op = "get_ab_test_service"
    /\ now = 1
    /\ countsFile.valid
    /\ countsFile.a = 2 /\ countsFile.b = 1 /\ countsFile.last_updated = 0

\* =================================================================
\* Notes with several creators
\* =================================================================
\* C26: the list get_recommendations returns holds no note id more than
\* once, whatever corpus the store returns, notes with more than one
\* CREATED relationship included.
C26_NoDuplicateIds ==
    CompletedCall =>
        \A i, j \in DOMAIN rank.result :
            i # j => rank.result[i].note_id # rank.result[j].note_id

====
